---- MODULE Spec2Model ----
(***************************************************************************)
(* treelite::containers::FastMap<int, int> (include/treelite/fastmap.h):   *)
(* an open-addressing table over a std::vector of ((key, value), valid)    *)
(* entries, probed linearly from hash(key) % size_hint_ without wrapping.  *)
(* C++ index i of the vector `data` is element i + 1 of the sequence.      *)
(***************************************************************************)
EXTENDS Integers, Sequences, FiniteSets, TLC

\* ---- bounds of the model ----
MaxKey == 2
MaxVal == 1
MaxHint == 2
MaxLen == 3

Keys == 0 .. MaxKey
Values == 0 .. MaxVal
Hints == 1 .. MaxHint

\* FastMap() : FastMap(2048)
DefaultSizeHint == 2048

VARIABLES
  data,        \* std::vector<value_type_> data
  size_,       \* size_type size_
  size_hint_,  \* const size_type size_hint_
  hinted_size, \* the constructor's argument: <<h>> for FastMap(h), <<>> for FastMap()
  walking,     \* an Iterator obtained from begin() is live
  base_iter,   \* its position (Iterator::base_iter), as an index into data
  walk,        \* storage indices the running walk has yielded so far
  written,     \* <<[key, val]>> for an assignment map[key] = val made since the
               \* last erase or clear and not followed by another assignment to
               \* the same key; <<>> when none is followed
  ret          \* the last call and what it returned

vars == <<data, size_, size_hint_, hinted_size, walking, base_iter, walk, written, ret>>

\* value_type_ as emplace_back() value-initializes it
EmptySlot == [key |-> 0, value |-> 0, valid |-> FALSE]

\* Hash of an int key: the pass-through hash
hash(key) == key

Offset(h, key) == hash(key) % h

\* data[i] for a C++ index i
Slot(d, i) == d[i + 1]

\* ---- operator[] ----

\* (mutant) the growth loop runs once more
RECURSIVE GrowOneTooMany(_, _)
GrowOneTooMany(d, offset) ==
  IF Len(d) <= offset + 1 THEN GrowOneTooMany(Append(d, EmptySlot), offset)
  ELSE d

\* while (data.size() <= offset) data.emplace_back();
RECURSIVE Grow(_, _)
Grow(d, offset) ==
  IF Len(d) <= offset THEN Grow(Append(d, EmptySlot), offset) ELSE d

\* (mutant) the scan gives up at the first invalid entry, as count and erase do
RECURSIVE IndexScanToFirstInvalid(_, _, _, _)
IndexScanToFirstInvalid(d, key, i, empty_loc) ==
  IF i >= Len(d) THEN [found |-> FALSE, loc |-> empty_loc]
  ELSE IF key = Slot(d, i).key THEN [found |-> TRUE, loc |-> i]
  ELSE IF ~Slot(d, i).valid THEN [found |-> FALSE, loc |-> i]
       ELSE IndexScanToFirstInvalid(d, key, i + 1, empty_loc)

\* the scan of operator[]: the first entry whose key compares equal (valid or
\* not), else the first invalid entry seen, else data.size()
RECURSIVE IndexScan(_, _, _, _)
IndexScan(d, key, i, empty_loc) ==
  IF i >= Len(d) THEN [found |-> FALSE, loc |-> empty_loc]
  ELSE IF key = Slot(d, i).key THEN [found |-> TRUE, loc |-> i]
  ELSE IF ~Slot(d, i).valid /\ empty_loc = Len(d)
       THEN IndexScan(d, key, i + 1, i)
       ELSE IndexScan(d, key, i + 1, empty_loc)

\* T& operator[](const key_type& key): the table after the call and the
\* index of the entry whose value is returned by reference
OperatorIndex(d, sz, h, key) ==
  LET offset == Offset(h, key) IN
  IF offset >= Len(d)
  THEN LET g == Grow(d, offset) IN
       [data |-> [g EXCEPT ![Len(g)] = [@ EXCEPT !.key = key, !.valid = TRUE]],
        size |-> sz + 1,
        loc |-> Len(g) - 1]
  ELSE LET s == IndexScan(d, key, offset, Len(d)) IN
       IF s.found
       THEN [data |-> d, size |-> sz, loc |-> s.loc]
       ELSE LET e == IF s.loc = Len(d) THEN Append(d, EmptySlot) ELSE d
                empty_loc == s.loc
                wasValid == Slot(e, empty_loc).valid
            IN [data |-> [e EXCEPT ![empty_loc + 1] =
                            [@ EXCEPT !.key = key, !.valid = TRUE]],
                size |-> IF ~wasValid THEN sz + 1 ELSE sz,
                loc |-> empty_loc]

\* ---- erase ----

\* the search loop of erase: index of the match, or data.size() when the scan
\* meets an invalid entry first or runs off the end
RECURSIVE EraseScan(_, _, _)
EraseScan(d, key, i) ==
  IF i >= Len(d) THEN Len(d)
  ELSE IF Slot(d, i).valid
       THEN IF key = Slot(d, i).key THEN i ELSE EraseScan(d, key, i + 1)
       ELSE Len(d)

\* std::iter_swap(data_begin + i - 1, data_begin + i)
IterSwap(d, i) == [d EXCEPT ![i] = d[i + 1], ![i + 1] = d[i]]

\* (mutant) the test without its comparison of the offset
MovableAnyValid(d, h, i) == Slot(d, i).valid

\* the test of the compaction loop on entry i
Movable(d, h, i) == Slot(d, i).valid /\ Offset(h, Slot(d, i).key) > i

\* (mutant) the invalidated entry, at index i - 1, is taken out of the vector
CompactByRemoval(d, h, i) == SubSeq(d, 1, i - 1) \o SubSeq(d, i + 1, Len(d))

\* the loop that moves the invalidated entry ahead, from index i
RECURSIVE Compact(_, _, _)
Compact(d, h, i) ==
  IF i >= Len(d) THEN d
  ELSE IF Movable(d, h, i) THEN Compact(IterSwap(d, i), h, i + 1)
       ELSE d

\* (mutant) the decrement left out
DecrementLeftOut(sz) == sz

\* --size_;
Decrement(sz) == sz - 1

\* (mutant) size_ is decremented before the search, also when nothing is found
eraseDecrementFirst(d, sz, h, key) ==
  LET loc == EraseScan(d, key, Offset(h, key)) IN
  IF loc = Len(d)
  THEN [data |-> d, size |-> Decrement(sz), result |-> 0]
  ELSE [data |-> Compact([d EXCEPT ![loc + 1].valid = FALSE], h, loc + 1),
        size |-> Decrement(sz),
        result |-> 1]

\* size_type erase(const key_type& key)
erase(d, sz, h, key) ==
  LET loc == EraseScan(d, key, Offset(h, key)) IN
  IF loc = Len(d)
  THEN [data |-> d, size |-> sz, result |-> 0]
  ELSE [data |-> Compact([d EXCEPT ![loc + 1].valid = FALSE], h, loc + 1),
        size |-> Decrement(sz),
        result |-> 1]

\* ---- lookups ----

\* find_if over [first, data.end()): index of the first valid entry holding
\* key, or data.size()
RECURSIVE FindIf(_, _, _)
FindIf(d, key, first) ==
  IF first >= Len(d) THEN Len(d)
  ELSE IF Slot(d, first).valid /\ key = Slot(d, first).key THEN first
       ELSE FindIf(d, key, first + 1)

Found(v) == [kind |-> "value", val |-> v]
OutOfRange == [kind |-> "out_of_range"]
Fault == [kind |-> "fault"]

\* T& at(const key_type& key): the outcomes the call can have.  With
\* offset > data.size() the range [data.begin() + offset, data.end()) is not a
\* valid range, and the call has undefined behaviour: it may report the end
\* iterator, read an entry from memory past the end of the vector, or fault.
at(d, h, key) ==
  LET offset == Offset(h, key) IN
  IF offset > Len(d)
  THEN {OutOfRange, Fault} \cup {Found(v) : v \in Values}
  ELSE LET entry == FindIf(d, key, offset) IN
       IF entry = Len(d) THEN {OutOfRange} ELSE {Found(Slot(d, entry).value)}

\* size_type count(const key_type& key)
RECURSIVE CountScan(_, _, _)
CountScan(d, key, i) ==
  IF i >= Len(d) THEN 0
  ELSE IF Slot(d, i).valid
       THEN IF key = Slot(d, i).key THEN 1 ELSE CountScan(d, key, i + 1)
       ELSE 0

count(d, h, key) == CountScan(d, key, Offset(h, key))

\* ---- capacity ----
empty == size_ = 0
size == size_
size_hint == size_hint_

\* ---- iterators ----

\* begin(): Iterator(data.begin(), data.end())
begin(d) == 0
\* end(): Iterator(data.end(), data.end())
end(d) == Len(d)

\* Iterator::operator++ from position i (i # end): the positions it can stop
\* at.  endFlag is what the read of base_iter->second yields when base_iter
\* has reached base_end (a read past the last entry of the vector).
RECURSIVE Increment(_, _, _)
Increment(d, i, endFlag) ==
  IF i = Len(d) THEN i
  ELSE LET j == i + 1
           flag == IF j < Len(d) THEN Slot(d, j).valid ELSE endFlag
       IN IF flag THEN j ELSE Increment(d, j, endFlag)

\* the indices whose valid flag operator++ reads, from position i
RECURSIVE IncrementReads(_, _)
IncrementReads(d, i) ==
  IF i = Len(d) THEN {}
  ELSE LET j == i + 1 IN
       IF j < Len(d) /\ Slot(d, j).valid THEN {j}
       ELSE {j} \cup IncrementReads(d, j)

\* ---- the state machine ----

\* the program stops when a call faults
Running == ret.op = "at" => ret.out # Fault

\* no Iterator is live
NoWalk ==
  /\ walking' = FALSE
  /\ base_iter' = 0
  /\ walk' = <<>>

Init ==
  /\ data = <<>>
  /\ size_ = 0
  /\ hinted_size \in {<<>>} \cup {<<h>> : h \in Hints}
  /\ size_hint_ = IF hinted_size = <<>> THEN DefaultSizeHint ELSE hinted_size[1]
  /\ walking = FALSE
  /\ base_iter = 0
  /\ walk = <<>>
  /\ written = <<>>
  /\ ret = [op |-> "construct"]

\* map[key];
CallIndex(key) ==
  LET r == OperatorIndex(data, size_, size_hint_, key) IN
  /\ Running
  /\ Len(r.data) <= MaxLen
  /\ data' = r.data
  /\ size_' = r.size
  /\ NoWalk
  /\ ret' = [op |-> "index", key |-> key, val |-> Slot(r.data, r.loc).value]
  /\ UNCHANGED <<size_hint_, hinted_size, written>>

\* map[key] = val;
CallAssign(key, val) ==
  LET r == OperatorIndex(data, size_, size_hint_, key) IN
  /\ Running
  /\ Len(r.data) <= MaxLen
  /\ data' = [r.data EXCEPT ![r.loc + 1].value = val]
  /\ size_' = r.size
  /\ NoWalk
  /\ written' \in IF written # <<>> /\ written[1].key # key
                  THEN {<<[key |-> key, val |-> val]>>, written}
                  ELSE {<<[key |-> key, val |-> val]>>}
  /\ ret' = [op |-> "assign", key |-> key, val |-> val]
  /\ UNCHANGED <<size_hint_, hinted_size>>

\* map.erase(key);
CallErase(key) ==
  LET r == erase(data, size_, size_hint_, key) IN
  /\ Running
  /\ data' = r.data
  /\ size_' = r.size
  /\ NoWalk
  /\ written' = <<>>
  /\ ret' = [op |-> "erase", key |-> key, val |-> r.result]
  /\ UNCHANGED <<size_hint_, hinted_size>>

\* (mutant) clear() puts the default hint back
clearToDefaultHint ==
  /\ Running
  /\ data' = <<>>
  /\ size_' = 0
  /\ NoWalk
  /\ written' = <<>>
  /\ ret' = [op |-> "clear"]
  /\ size_hint_' = DefaultSizeHint
  /\ UNCHANGED hinted_size

\* void clear()
clear ==
  /\ Running
  /\ data' = <<>>
  /\ size_' = 0
  /\ NoWalk
  /\ written' = <<>>
  /\ ret' = [op |-> "clear"]
  /\ UNCHANGED <<size_hint_, hinted_size>>

\* map.at(key);
CallAt(key) ==
  /\ Running
  /\ \E o \in at(data, size_hint_, key) :
       ret' = [op |-> "at", key |-> key, out |-> o]
  /\ UNCHANGED <<data, size_, size_hint_, hinted_size, walking, base_iter, walk, written>>

\* map.count(key);
CallCount(key) ==
  /\ Running
  /\ ret' = [op |-> "count", key |-> key, val |-> count(data, size_hint_, key)]
  /\ UNCHANGED <<data, size_, size_hint_, hinted_size, walking, base_iter, walk, written>>

\* for (auto iter = map.begin(); ...: the walk starts
CallBegin ==
  /\ Running
  /\ walking' = TRUE
  /\ base_iter' = begin(data)
  /\ walk' = IF begin(data) # end(data) THEN <<begin(data)>> ELSE <<>>
  /\ ret' = [op |-> "begin"]
  /\ UNCHANGED <<data, size_, size_hint_, hinted_size, written>>

\* ...; iter != map.end(); ++iter): one more step of the walk
CallIncrement ==
  /\ Running
  /\ walking
  /\ base_iter # end(data)
  /\ \E endFlag \in BOOLEAN :
       LET j == Increment(data, base_iter, endFlag) IN
       /\ base_iter' = j
       /\ walk' = IF j # end(data) THEN Append(walk, j) ELSE walk
  /\ ret' = [op |-> "increment"]
  /\ UNCHANGED <<data, size_, size_hint_, hinted_size, walking, written>>

Next ==
  \/ \E key \in Keys : CallIndex(key)
  \/ \E key \in Keys, val \in Values : CallAssign(key, val)
  \/ \E key \in Keys : CallErase(key)
  \/ clear
  \/ \E key \in Keys : CallAt(key)
  \/ \E key \in Keys : CallCount(key)
  \/ CallBegin
  \/ CallIncrement

Spec == Init /\ [][Next]_vars

\* ---- what the claims speak of ----

\* some valid entry holds key
Present(d, key) == \E i \in 1 .. Len(d) : d[i].valid /\ d[i].key = key

\* the number of entries whose valid flag is set
ValidCount(d) == Cardinality({i \in 1 .. Len(d) : d[i].valid})

\* the C++ indices of the valid entries, in increasing order
RECURSIVE ValidFrom(_, _)
ValidFrom(d, i) ==
  IF i >= Len(d) THEN <<>>
  ELSE IF Slot(d, i).valid THEN <<i>> \o ValidFrom(d, i + 1)
       ELSE ValidFrom(d, i + 1)

\* the walk from begin() has reached end()
WalkDone == walking /\ base_iter = end(data)

\* C1: after map[k] = v, with nothing but assignments to other keys since,
\* at(k) returns v.
C1_ReadYourWrites ==
  written # <<>> =>
    at(data, size_hint_, written[1].key) = {Found(written[1].val)}

\* C2: operator[] on a key that no valid entry holds adds exactly 1 to size(),
\* and on a key that a valid entry holds leaves size() as it is.
C2_IndexSizeAccounting ==
  [][ret'.op \in {"index", "assign"} =>
       size_' = IF Present(data, ret'.key) THEN size_ ELSE size_ + 1]_vars

\* C3: erase of a key that a valid entry holds returns 1 and takes exactly 1
\* off size(); the same erase repeated at once returns 0 and changes nothing.
C3_ErasePresent ==
  [][(ret'.op = "erase" /\ Present(data, ret'.key)) =>
       /\ ret'.val = 1
       /\ size_' = size_ - 1
       /\ erase(data', size_', size_hint_, ret'.key)
            = [data |-> data', size |-> size_', result |-> 0]]_vars

\* C4: after erase(k) returns 1, at(k) reports out_of_range, and at(j) of every
\* other key j that was present returns the value it returned before.
C4_ErasePreservesSurvivors ==
  [][(ret'.op = "erase" /\ ret'.val = 1) =>
       /\ at(data', size_hint_, ret'.key) = {OutOfRange}
       /\ \A j \in Keys \ {ret'.key} :
            Present(data, j) =>
              /\ \E v \in Values : at(data, size_hint_, j) = {Found(v)}
              /\ at(data', size_hint_, j) = at(data, size_hint_, j)]_vars

C4_Witness ==
  /\ ret.op = "erase"
  /\ ret.val = 1
  /\ size_ >= 2
  /\ \E i \in 1 .. Len(data) :
       /\ data[i].valid
       /\ Offset(size_hint_, data[i].key) < i - 1
       /\ ~data[Offset(size_hint_, data[i].key) + 1].valid

\* C5: count(k) is 1 when a valid entry holds k and 0 otherwise.
C5_CountAgreesWithPresence ==
  \A k \in Keys :
    count(data, size_hint_, k) = IF Present(data, k) THEN 1 ELSE 0

\* C6: for a key that no valid entry holds, count returns 0 and at reports
\* out_of_range, and neither call changes the table.
C6_AbsentKeyLookup ==
  [][(ret'.op \in {"at", "count"} /\ ~Present(data, ret'.key)) =>
       /\ ret'.op = "at" => ret'.out = OutOfRange
       /\ ret'.op = "count" => ret'.val = 0
       /\ data' = data
       /\ size_' = size_]_vars

\* C7: after clear() the table is as a newly constructed one: size() is 0,
\* empty() holds, there are no entries, and for every key at reports
\* out_of_range and count returns 0.
C7_ClearResetsToFresh ==
  ret.op = "clear" =>
    /\ size = 0
    /\ empty
    /\ data = <<>>
    /\ \A k \in Keys :
         /\ at(data, size_hint_, k) = {OutOfRange}
         /\ count(data, size_hint_, k) = 0

\* C8: a walk from begin() to end() yields exactly the valid entries, each once,
\* in increasing storage index: size() of them, each (key, value) being what
\* at(key) returns.
C8_IterationYieldsLiveEntries ==
  WalkDone =>
    /\ walk = ValidFrom(data, 0)
    /\ Len(walk) = size
    /\ \A n \in 1 .. Len(walk) :
         at(data, size_hint_, Slot(data, walk[n]).key)
           = {Found(Slot(data, walk[n]).value)}

\* C9: for every key at most one valid entry holds it.
C9_KeyUniqueness ==
  \A k \in Keys :
    Cardinality({i \in 1 .. Len(data) : data[i].valid /\ data[i].key = k}) <= 1

C9_Witness ==
  /\ ret.op \in {"index", "assign"}
  /\ \E i, j \in 1 .. Len(data) :
       /\ i < j
       /\ data[i].valid
       /\ data[j].valid
       /\ Offset(size_hint_, data[i].key) = Offset(size_hint_, data[j].key)
       /\ data[j].key = ret.key
  /\ \E i \in 1 .. Len(data) : ~data[i].valid

\* C10: size() is the number of entries whose valid flag is set, and empty()
\* holds exactly when there is none.
C10_CountInvariant ==
  /\ size = ValidCount(data)
  /\ empty <=> ValidCount(data) = 0

C10_Witness ==
  /\ ret.op = "erase"
  /\ ret.val = 1
  /\ size >= 1
  /\ Len(data) > size

\* C11: every entry in front of a valid entry, from that entry's own offset on,
\* is valid: a scan from the offset that stops at the first invalid entry
\* reaches every valid entry.
C11_ProbeChainNoHole ==
  \A i \in 0 .. Len(data) - 1 :
    Slot(data, i).valid =>
      \A j \in Offset(size_hint_, Slot(data, i).key) .. i - 1 :
        Slot(data, j).valid

\* C12: size_hint() is the construction value, 2048 for the default
\* constructor and h for FastMap(h), in every state, whatever was called since
\* and however long the storage has grown.
C12_SizeHintFixed ==
  size_hint = IF hinted_size = <<>> THEN 2048 ELSE hinted_size[1]

C12_Witness ==
  /\ hinted_size # <<>>
  /\ Len(data) > size_hint
  /\ ret.op = "clear" \/ (ret.op = "erase" /\ ret.val = 1)

\* C13: operator[] on a key that no valid entry holds returns a reference to a
\* default-initialized value, 0.
C13_FreshEntriesDefaultValued ==
  [][(ret'.op = "index" /\ ~Present(data, ret'.key)) => ret'.val = 0]_vars

\* the compaction pass as C14 states it: from index i, every valid entry whose
\* offset is less than its index moves one position back, up to the first entry
\* that is invalid or at its own offset
RECURSIVE ClaimedCompact(_, _, _)
ClaimedCompact(d, h, i) ==
  IF i >= Len(d) THEN d
  ELSE IF Slot(d, i).valid /\ Offset(h, Slot(d, i).key) < i
       THEN ClaimedCompact(IterSwap(d, i), h, i + 1)
       ELSE d

\* C14: after erase(k) has invalidated the entry at loc, the entries of the
\* run behind it whose offset is less than their index have each moved one
\* position back, and the hole lies behind that run.
C14_CompactionOnErase ==
  [][(ret'.op = "erase" /\ ret'.val = 1) =>
       LET loc == EraseScan(data, ret'.key, Offset(size_hint_, ret'.key)) IN
       data' = ClaimedCompact([data EXCEPT ![loc + 1].valid = FALSE],
                              size_hint_, loc + 1)]_vars

\* C15: operator[] on a key whose offset is at or past the storage length
\* extends the storage with empty entries to length offset + 1, makes the new
\* last entry valid with the key, adds 1 to size() and leaves the entries that
\* were there as they were.
C15_GrowthStep ==
  [][(ret'.op \in {"index", "assign"}
        /\ Offset(size_hint_, ret'.key) >= Len(data)) =>
       LET offset == Offset(size_hint_, ret'.key) IN
       /\ Len(data') = offset + 1
       /\ Slot(data', offset).valid
       /\ Slot(data', offset).key = ret'.key
       /\ size_' = size_ + 1
       /\ \A i \in 0 .. Len(data) - 1 : Slot(data', i) = Slot(data, i)
       /\ \A i \in Len(data) .. offset - 1 : Slot(data', i) = EmptySlot]_vars

C15_Witness ==
  /\ ret.op \in {"index", "assign"}
  /\ Len(data) >= 2
  /\ Len(data) = Offset(size_hint_, ret.key) + 1
  /\ Slot(data, Len(data) - 1).valid
  /\ Slot(data, Len(data) - 1).key = ret.key
  /\ size = 1
  /\ \A i \in 0 .. Len(data) - 2 : Slot(data, i) = EmptySlot

\* C16: an erase that returns 0 leaves every entry, the storage length and
\* size() as they were; erase returns 0 or 1 for every key, and 0 for a key
\* whose offset lies at or past the storage length.
C16_EraseAbsentIsNoOp ==
  [][ret'.op = "erase" =>
       /\ ret'.val \in {0, 1}
       /\ ret'.val = 0 => data' = data /\ size_' = size_
       /\ Offset(size_hint_, ret'.key) >= Len(data) => ret'.val = 0]_vars

C16_Witness ==
  /\ ret.op = "erase"
  /\ ret.val = 0
  /\ size >= 1
  /\ Offset(size_hint_, ret.key) > Len(data)

\* C17: the storage length never decreases across an operator[], erase, at,
\* count or iterator step, and erase leaves it as it is; clear() sets it to 0.
C17_StorageMonotone ==
  [][/\ ret'.op # "clear" => Len(data') >= Len(data)
     /\ ret'.op = "erase" => Len(data') = Len(data)
     /\ ret'.op = "clear" => Len(data') = 0]_vars

C17_Witness ==
  /\ ret.op = "erase"
  /\ ret.val = 1
  /\ Len(data) > size_hint
  /\ size < Len(data)

\* C18: no valid entry is stored in front of its own offset.
C18_PlacementInvariant ==
  \A i \in 0 .. Len(data) - 1 :
    Slot(data, i).valid => Offset(size_hint_, Slot(data, i).key) <= i

C18_Witness ==
  /\ ret.op = "erase"
  /\ ret.val = 1
  /\ \E i \in 1 .. Len(data) - 1 :
       /\ ~Slot(data, i - 1).valid
       /\ Slot(data, i - 1).key = ret.key
       /\ Slot(data, i).valid
       /\ Offset(size_hint_, Slot(data, i).key) = i

\* C19: from every position in [begin(), end()) operator++ reads the valid
\* flag only of entries at indices below the storage length, and begin()
\* equals end() on an empty table.
C19_IteratorMemorySafety ==
  /\ \A i \in begin(data) .. end(data) - 1 :
       \A j \in IncrementReads(data, i) : j < Len(data)
  /\ data = <<>> => begin(data) = end(data)

\* C20: at(k) for a key whose offset is greater than the storage length
\* reports out_of_range, and nothing else.
C20_LookupBoundsSafety ==
  \A k \in Keys :
    Offset(size_hint_, k) > Len(data) => at(data, size_hint_, k) = {OutOfRange}

====
